---- MODULE Spec2Model ----
(***************************************************************************)
(* Session tracking and risk engine of the content recommendation backend  *)
(* (backend/models/anti_addiction.py) and the throttled result count of    *)
(* the ensemble ranker (backend/models/context_ensemble.py).               *)
(*                                                                         *)
(* anti_addiction.py defines class AntiAddictionModule twice.  Running the *)
(* file as a script executes its __main__ block (line 348) with the first  *)
(* definition; importing it binds the name to the second definition.  The  *)
(* variable `variant` says which definition the process uses; it is chosen *)
(* at start and never changes.                                             *)
(*                                                                         *)
(* Time is counted in minutes since 00:00 of day 0.  Two calls made at the *)
(* same clock value are calls within the same second.                      *)
(* Risk and wellness scores are counted in units of 1/300 of a point, so   *)
(* that total_minutes/120*100*0.4 = total_minutes/3 is exact.              *)
(* Table user_mood_profile, which the second definition also updates, is   *)
(* created by MoodDetector, which the routes construct first.              *)
(*                                                                         *)
(* backend/models/mood_content_affinity.py defines class                   *)
(* MoodContentAffinity twice in the same way: the first definition keeps   *)
(* its matrix in table mood_affinity, the second has a static matrix and   *)
(* creates table mood_genre_affinity, which it never writes.  `variant`    *)
(* selects the definition there as well.  Affinity scores are counted in   *)
(* hundredths.                                                             *)
(* backend/models/mood_detector.py defines class MoodDetector twice as     *)
(* well; `variant` selects the definition there too.                       *)
(***************************************************************************)
EXTENDS Integers, Sequences, FiniteSets, TLC

VARIABLES scope,         \* which requests are issued (fixed by the initial condition)
          variant,       \* 1: first class definition, 2: second class definition
          clock,         \* wall clock, minutes
          sessions,      \* table watch_sessions: session_id -> row
          metrics,       \* table addiction_metrics: <<user_id, date>> -> row
          lock,          \* holder of the database write lock
          ending,        \* per thread: the end_watch_session call in progress
          reported,      \* history: session_id -> last elapsed value passed to update_watch_progress
          issued,        \* history: ids returned by successful start_watch_session calls
          matrix,        \* MoodContentAffinity: the in-memory matrix, <<mood, genre>> -> score
          mood_affinity, \* table mood_affinity: <<mood, genre>> -> affinity_score
          user_mood_profile, \* table user_mood_profile: user_id -> current_mood
          mood_history,  \* table mood_history: the rows in order of insertion, <<user_id, mood>>
          input,         \* arguments of the function under evaluation (scopes of pure functions)
          last           \* history: what the step just taken returned, if it returned

vars == <<scope, variant, clock, sessions, metrics, lock, ending, reported, issued, matrix,
          mood_affinity, user_mood_profile, mood_history, input, last>>

----------------------------------------------------------------------------
(* Bounds of the model.  Three scopes of requests are explored:             *)
(*   "api"   two users, requests served by one thread                       *)
(*   "conc"  one user, end_watch_session requests served by two threads     *)
(*   "risk"  one user and one session ended repeatedly, with the throttle   *)
(*           and the recommendation count                                   *)
(*   "dash"  one user and one session, with durations that give scores      *)
(*           with decimals, and the daily dashboard                         *)
(*   "rank"  get_recommendations alone, at three hours of the day, with the  *)
(*           ratings the candidate source draws                             *)
(*   "neg"   one user, with a negative elapsed value among the progress     *)
(*           reports                                                        *)
(*   "iso"   two users who both start sessions                              *)
(*   "late"  one user and two sessions, before and after 23:00, with the    *)
(*           daily dashboard                                                *)
(*   "dawn"  one user and two sessions, at 04:00 and at 05:00 of one day    *)
(* The other scopes have sections of their own below.                       *)

MaxSessions == 2      \* rows of watch_sessions
MaxCount == 2         \* folds into one addiction_metrics row
MaxFolds == 5         \* the same, in scope "risk"
MaxTicks == 1         \* clock advances
MaxTotal == 330       \* total_watch_minutes, in scope "score"
MaxDraws == 2         \* outcomes of the random ratings, in scope "rank"

Users == IF scope \in {"api", "iso"} THEN {1, 2} ELSE {1}     \* user_id passed to end_watch_session
Owners == IF scope = "iso" THEN {1, 2} ELSE {1}    \* user_id passed to start_watch_session
Contents == IF scope = "conc" THEN {1, 2} ELSE {1}
Elapsed == IF scope = "risk" THEN {0, 60} ELSE IF scope = "dash" THEN {0, 30, 31, 60}
           ELSE IF scope = "neg" THEN {-5, 30} ELSE {30}
Satisfied == IF scope = "risk" THEN BOOLEAN ELSE {TRUE}
Threads == {"t1", "t2"}
Serving == IF scope = "conc" THEN Threads ELSE {"t1"}
Requested == {1, 5, 10, 120}
SessionCap == IF scope \in {"risk", "dash"} THEN 1
              ELSE IF scope \in {"iso", "late", "dawn"} THEN 2 ELSE MaxSessions
FoldCap == IF scope = "risk" THEN MaxFolds
           ELSE IF scope = "dawn" THEN MaxFolds + 1 ELSE MaxCount
Jump == IF scope = "risk" THEN 30 ELSE IF scope = "dash" THEN 25
        ELSE IF scope = "rank" THEN 3 * 60 ELSE 60
ClockStart == IF scope = "conc" THEN 23 * 60 ELSE IF scope = "dash" THEN 22 * 60 + 10
              ELSE IF scope = "rank" THEN 16 * 60
              ELSE IF scope = "dawn" THEN 24 * 60 + 4 * 60 ELSE 22 * 60
Ticks == IF scope = "api" THEN MaxTicks
         ELSE IF scope \in {"risk", "dash", "rank"} THEN MaxTicks + 1 ELSE 1
ClockEnd == ClockStart + Jump * Ticks

(* Program constants *)
DAILY_WATCH_GOAL == 120
BREAK_INTERVAL == 30
BINGE_THRESHOLD == 180
CRITICAL_THRESHOLD == 300
NumCandidates == 100     \* _get_ml_candidates(user_id, n=100)

Unit == 3 * 100    \* score units per point

NULL == -1
NoSession == <<0, 0, 0>>   \* an id no start_watch_session call returns

Min(a, b) == IF a < b THEN a ELSE b
Max(a, b) == IF a > b THEN a ELSE b

Hour(t) == (t \div 60) % 24
Date(t) == t \div (24 * 60)

----------------------------------------------------------------------------
(* Session ids *)

\* f"sess_{user_id}_{content_id}_{ts}" with ts the clock in whole seconds
session_id(u, c, t) == <<u, c, t>>

\* a table without the key: no INSERT ever fails on the id
IdNeverTaken(id) == FALSE

\* PRIMARY KEY of watch_sessions: the INSERT fails when the id is present
IdTaken(id) == id \in DOMAIN sessions

----------------------------------------------------------------------------
(* The database write lock.  Each method opens its own connection; the      *)
(* first INSERT/UPDATE of a connection begins a transaction that holds the  *)
(* lock until commit.  A connection left open with a failed statement keeps *)
(* the lock until the garbage collector closes it.                          *)

LockFree == lock = "free"

NoRow == [total |-> 0, count |-> 0, max |-> 0]

\* an end_watch_session call in progress: its arguments and locals, and as
\* history the aggregate row at its start (seen), what other calls have
\* committed since (others) and the sessions of the calls it overlaps (peers)
Idle == [pc |-> "idle", sid |-> NoSession, uid |-> 0, sat |-> FALSE, dur |-> 0,
         endt |-> 0, day |-> 0, has |-> FALSE, row |-> NoRow,
         seen |-> NoRow, others |-> NoRow, peers |-> {}]

\* what the last completed call returned
Ret(op, status, sid, val, score, flag) ==
    [op |-> op, status |-> status, sid |-> sid, arg |-> 0, val |-> val, score |-> score,
     flag |-> flag]

NoRet == Ret("none", "none", NoSession, 0, 0, FALSE)
Err(op, status) == Ret(op, status, NoSession, 0, 0, FALSE)

NoInput == [kind |-> "none"]

\* what no session call touches
Fixed == <<scope, variant, input, matrix, mood_affinity, user_mood_profile, mood_history>>

----------------------------------------------------------------------------
(* Risk score *)

\* first definition, _compute_binge_factor
compute_binge_factor(max_session_duration) ==
    IF max_session_duration < 60 THEN 0
    ELSE IF max_session_duration < BINGE_THRESHOLD THEN 50
    ELSE IF max_session_duration < CRITICAL_THRESHOLD THEN 80
    ELSE 100

IsLateStart(hr) == hr >= 23 \/ hr < 6

\* first definition, _unhealthy_hours_factor: reads watch_sessions
unhealthy_hours_factor(S, u, d) ==
    IF \E id \in DOMAIN S : /\ S[id].user = u
                            /\ Date(S[id].start) = d
                            /\ IsLateStart(Hour(S[id].start))
    THEN 50 ELSE 0

Round3(x) == (2 * x + 3) \div 6     \* x thirds, rounded to the nearest whole

\* first definition, get_addiction_risk_score from the aggregates
RiskFormula1(total_minutes, session_count, max_session, f4) ==
    LET f1x == Min(100 * Unit, (total_minutes * 100 * Unit) \div DAILY_WATCH_GOAL) \* f1 in units
        f2x == Min(100 * Unit, (session_count * 100 * Unit) \div 5)
        f3 == compute_binge_factor(max_session)
        \* hundredths of a point, times 3
        t3 == (f1x * 4 + f2x * 3 + f3 * Unit * 2 + f4 * Unit) \div 10
        clamped == Max(0, Min(100 * Unit, t3))
    IN  Round3(clamped) * 3

get_addiction_risk_score_1(S, M, u, d) ==
    LET has == <<u, d>> \in DOMAIN M
        total_minutes == IF has THEN M[<<u, d>>].total ELSE 0
        session_count == IF has THEN M[<<u, d>>].count ELSE 0
        max_session == IF has THEN M[<<u, d>>].max ELSE 0
    IN  RiskFormula1(total_minutes, session_count, max_session, unhealthy_hours_factor(S, u, d))

IsLateNow(hr) == 23 <= hr \/ hr <= 4

\* a binge factor that drops from 100 to 80 past the critical threshold
RiskFormulaDip(total_minutes, session_count, current_hour) ==
    LET f1 == (Min((total_minutes * 100 * Unit) \div DAILY_WATCH_GOAL, 100 * Unit) * 40) \div 100
        f2 == (Min((session_count * 100 * Unit) \div 5, 100 * Unit) * 30) \div 100
        f3 == IF total_minutes > CRITICAL_THRESHOLD THEN 80
              ELSE IF total_minutes > BINGE_THRESHOLD THEN 100
              ELSE 0
        f4 == IF 23 <= current_hour \/ current_hour <= 4 THEN (50 * Unit * 10) \div 100 ELSE 0
    IN  Min(f1 + (f2 + (f3 * Unit * 20) \div 100) + f4, 100 * Unit)

\* second definition, _update_addiction_score
RiskFormula2(total_minutes, session_count, current_hour) ==
    LET f1 == (Min((total_minutes * 100 * Unit) \div DAILY_WATCH_GOAL, 100 * Unit) * 40) \div 100
        f2 == (Min((session_count * 100 * Unit) \div 5, 100 * Unit) * 30) \div 100
        f3 == IF total_minutes > CRITICAL_THRESHOLD THEN 100
              ELSE IF total_minutes > BINGE_THRESHOLD THEN 80
              ELSE IF 2 * total_minutes > DAILY_WATCH_GOAL * 3 THEN 50
              ELSE 0
        f4 == IF IsLateNow(current_hour) THEN (50 * Unit * 10) \div 100 ELSE 0
    IN  Min(f1 + (f2 + (f3 * Unit * 20) \div 100) + f4, 100 * Unit)

\* second definition, get_addiction_risk_score: the stored score
get_addiction_risk_score_2(M, u, d) ==
    IF <<u, d>> \in DOMAIN M THEN M[<<u, d>>].risk ELSE 0

get_addiction_risk_score(S, M, u, d) ==
    IF variant = 1 THEN get_addiction_risk_score_1(S, M, u, d)
    ELSE get_addiction_risk_score_2(M, u, d)

----------------------------------------------------------------------------
(* Throttle *)

\* percent of the requested recommendations that is shown
ThrottlePercent1(score) ==
    IF score < 60 * Unit THEN 100
    ELSE IF score <= 75 * Unit THEN 50
    ELSE 20

\* second definition: throttle_percentage is the part that is withheld
ThrottlePercent2(score) ==
    LET throttle_percentage == IF score > 75 * Unit THEN 80
                               ELSE IF score > 60 * Unit THEN 50
                               ELSE 0
    IN  100 - throttle_percentage

ThrottlePercent(score) ==
    IF variant = 1 THEN ThrottlePercent1(score) ELSE ThrottlePercent2(score)

Throttled(score) ==
    IF variant = 1 THEN ThrottlePercent1(score) < 100 ELSE score > 60 * Unit

----------------------------------------------------------------------------
\* only end_watch_session calls overlap, and only in scope "conc"
Sequenced == \A t \in Threads : ending[t].pc = "idle"

InitIn(sc) ==
    /\ scope = sc
    /\ variant \in {1, 2}
    /\ input = NoInput
    /\ clock = ClockStart
    /\ sessions = << >>
    /\ metrics = << >>
    /\ lock = "free"
    /\ ending = [t \in Threads |-> Idle]
    /\ reported = << >>
    /\ issued = {}
    /\ matrix = << >>
    /\ mood_affinity = << >>
    /\ user_mood_profile = << >>
    /\ mood_history = << >>
    /\ last = NoRet

\* a scope that evaluates a function on arguments drawn from `inputs`
InitPure(sc, inputs) ==
    /\ scope = sc
    /\ variant \in {1, 2}
    /\ input \in inputs
    /\ clock = ClockStart
    /\ sessions = << >>
    /\ metrics = << >>
    /\ lock = "free"
    /\ ending = [t \in Threads |-> Idle]
    /\ reported = << >>
    /\ issued = {}
    /\ matrix = << >>
    /\ mood_affinity = << >>
    /\ user_mood_profile = << >>
    /\ mood_history = << >>
    /\ last = NoRet

Init == InitIn("api")
InitConc == InitIn("conc")

\* how the ensemble was constructed: the routes pass mappings = None, the
\* class documents a dict with user_map
Mappings == {"None", "dict"}
EnsembleInputs == [kind : {"ensemble"}, mappings : Mappings]

InitRisk == InitPure("risk", EnsembleInputs)
InitDash == InitIn("dash")
InitNeg == InitIn("neg")
InitIso == InitIn("iso")
InitLate == InitIn("late")
InitDawn == InitIn("dawn")

Tick ==
    /\ Sequenced
    /\ clock + Jump <= ClockEnd
    /\ clock' = clock + Jump
    /\ last' = NoRet
    /\ UNCHANGED <<Fixed, sessions, metrics, lock, ending, reported, issued>>

\* the collector closes a leaked connection; its open transaction is rolled back
Collect ==
    /\ lock = "leaked"
    /\ lock' = "free"
    /\ last' = NoRet
    /\ UNCHANGED <<Fixed, clock, sessions, metrics, ending, reported, issued>>

----------------------------------------------------------------------------
(* start_watch_session *)

NewRow1(u, c) == [user |-> u, content |-> c, start |-> clock, end_time |-> NULL,
                  duration |-> 0, completed |-> 0, satisfied |-> 0]

NewRow2(u, c) == [user |-> u, content |-> c, start |-> clock, end_time |-> NULL,
                  duration |-> 0, completed |-> 0, satisfied |-> NULL]

DefaultMetric == [total |-> 0, count |-> 0, max |-> 0, risk |-> 0,
                  wellness |-> 100 * Unit, breaks |-> 0]

\* INSERT OR IGNORE INTO addiction_metrics (user_id, date)
InsertOrIgnore(M, k) == IF k \in DOMAIN M THEN M ELSE (k :> DefaultMetric) @@ M

start_watch_session_1(u, c) ==
    LET id == session_id(u, c, clock) IN
    /\ Sequenced
    /\ variant = 1
    /\ IF ~LockFree
       THEN \* database is locked: the error is re-raised
            /\ last' = Err("start", "raised")
            /\ UNCHANGED <<sessions, lock, reported, issued>>
       ELSE IF IdTaken(id)
       THEN \* UNIQUE constraint failed: re-raised, the connection stays open
            /\ lock' = "leaked"
            /\ last' = Err("start", "raised")
            /\ UNCHANGED <<sessions, reported, issued>>
       ELSE /\ Cardinality(DOMAIN sessions) < SessionCap
            /\ sessions' = (id :> NewRow1(u, c)) @@ sessions
            /\ reported' = (id :> 0) @@ reported
            /\ issued' = issued \cup {id}
            /\ last' = Ret("start", "ok", id, 0, 0, id \in issued)
            /\ UNCHANGED lock
    /\ UNCHANGED <<Fixed, clock, metrics, ending>>

start_watch_session_2(u, c) ==
    LET id == session_id(u, c, clock) IN
    /\ Sequenced
    /\ variant = 2
    /\ IF ~LockFree
       THEN \* database is locked: returns ""
            /\ last' = Err("start", "failed")
            /\ UNCHANGED <<sessions, metrics, lock, reported, issued>>
       ELSE IF IdTaken(id)
       THEN \* UNIQUE constraint failed: returns "", the connection stays open
            /\ lock' = "leaked"
            /\ last' = Err("start", "failed")
            /\ UNCHANGED <<sessions, metrics, reported, issued>>
       ELSE /\ Cardinality(DOMAIN sessions) < SessionCap
            /\ sessions' = (id :> NewRow2(u, c)) @@ sessions
            /\ metrics' = InsertOrIgnore(metrics, <<u, Date(clock)>>)
            /\ reported' = (id :> 0) @@ reported
            /\ issued' = issued \cup {id}
            /\ last' = Ret("start", "ok", id, 0, 0, id \in issued)
            /\ UNCHANGED lock
    /\ UNCHANGED <<Fixed, clock, ending>>

start_watch_session(u, c) == start_watch_session_1(u, c) \/ start_watch_session_2(u, c)

----------------------------------------------------------------------------
(* update_watch_progress *)

\* a break check without the test duration_minutes > 0
BreakAtMultiple(duration_minutes) ==
    duration_minutes % BREAK_INTERVAL = 0

should_break(duration_minutes) ==
    duration_minutes > 0 /\ duration_minutes % BREAK_INTERVAL = 0

update_watch_progress_1(sid, duration_minutes) ==
    /\ Sequenced
    /\ variant = 1
    /\ IF sid \notin DOMAIN sessions
       THEN /\ last' = Err("update", "not_found")
            /\ UNCHANGED <<sessions, reported>>
       ELSE IF ~LockFree
       THEN /\ last' = Err("update", "locked")
            /\ UNCHANGED <<sessions, reported>>
       ELSE /\ sessions' = [sessions EXCEPT ![sid].duration = duration_minutes]
            /\ reported' = [reported EXCEPT ![sid] = duration_minutes]
            /\ last' = Ret("update", "ok", sid, duration_minutes,
                           get_addiction_risk_score_1(sessions', metrics, sessions[sid].user, Date(clock)),
                           should_break(duration_minutes))
    /\ UNCHANGED <<Fixed, clock, metrics, lock, ending, issued>>

\* second definition: no store access at all
update_watch_progress_2(sid, duration_minutes) ==
    /\ Sequenced
    /\ variant = 2
    /\ reported' = IF sid \in DOMAIN reported
                   THEN [reported EXCEPT ![sid] = duration_minutes] ELSE reported
    /\ last' = Ret("update", "ok", sid, duration_minutes, 0, should_break(duration_minutes))
    /\ UNCHANGED <<Fixed, clock, sessions, metrics, lock, ending, issued>>

update_watch_progress(sid, m) == update_watch_progress_1(sid, m) \/ update_watch_progress_2(sid, m)

----------------------------------------------------------------------------
(* end_watch_session, one step per store round trip *)

InFlight == Cardinality({t \in Threads : ending[t].pc # "idle"})
CountBelowBound ==
    /\ \A k \in DOMAIN metrics : metrics[k].count + InFlight < FoldCap
    /\ \A r \in Threads : ending[r].others.count + InFlight < FoldCap

\* threads are interchangeable: a request is served by the first idle one
FirstIdle(t) == ending[t].pc = "idle" /\ (t = "t2" => ending["t1"].pc # "idle")

\* first definition: SELECT ... WHERE session_id = ? AND user_id = ?
Found1(sid, uid) == sid \in DOMAIN sessions /\ sessions[sid].user = uid
\* second definition: SELECT ... WHERE session_id = ?
Found2(sid, uid) == sid \in DOMAIN sessions

Found(sid, uid) == IF variant = 1 THEN Found1(sid, uid) ELSE Found2(sid, uid)

\* second definition: int((end_time - start_time).total_seconds() / 60)
WallDuration(start, end) == (60 * (end - start)) \div 60

\* SELECT metric_id, total_watch_minutes, session_count, max_session_duration ...
ReadRow(m) == [total |-> m.total, count |-> m.count, max |-> m.max]
RowOf(M, k) == IF k \in DOMAIN M THEN ReadRow(M[k]) ELSE NoRow

EndSelect(t, sid, uid, sat) ==
    /\ FirstIdle(t)
    /\ CountBelowBound
    /\ IF ~Found(sid, uid)
       THEN /\ last' = Err("end", "not_found")
            /\ UNCHANGED ending
       ELSE /\ ending' =
                 LET mine ==
                 [pc |-> "selected", sid |-> sid, uid |-> uid, sat |-> sat,
                  dur |-> IF variant = 1 THEN sessions[sid].duration
                          ELSE WallDuration(sessions[sid].start, clock),
                  endt |-> IF variant = 1 THEN 0 ELSE clock,
                  day |-> IF variant = 1 THEN 0 ELSE Date(clock),
                  has |-> FALSE,
                  row |-> NoRow,
                  seen |-> RowOf(metrics, <<uid, Date(clock)>>),
                  others |-> NoRow,
                  peers |-> {ending[r].sid : r \in {x \in Threads : ending[x].pc # "idle"}}]
                 IN [r \in Threads |->
                       IF r = t THEN mine
                       ELSE IF ending[r].pc = "idle" THEN ending[r]
                       ELSE [ending[r] EXCEPT !.peers = @ \cup {sid}]]
            /\ last' = NoRet
    /\ UNCHANGED <<Fixed, clock, sessions, metrics, lock, reported, issued>>


\* the UPDATE of watch_sessions opens the write transaction; the first
\* definition then reads the addiction_metrics row inside it
EndLock(t) ==
    LET e == ending[t]
        k == <<e.uid, Date(clock)>>
    IN
    /\ e.pc = "selected"
    /\ IF ~LockFree
       THEN /\ ending' = [ending EXCEPT ![t] = Idle]
            /\ last' = Err("end", "locked")
            /\ UNCHANGED lock
       ELSE /\ lock' = t
            /\ ending' = [ending EXCEPT ![t] =
                 IF variant = 1
                 THEN [e EXCEPT !.pc = "locked", !.endt = clock, !.day = Date(clock),
                                !.has = k \in DOMAIN metrics,
                                !.row = RowOf(metrics, k)]
                 ELSE [e EXCEPT !.pc = "locked"]]
            /\ last' = NoRet
    /\ UNCHANGED <<Fixed, clock, sessions, metrics, reported, issued>>

Fold1(M, k, has, row, duration) ==
    IF ~has
    THEN (k :> [DefaultMetric EXCEPT !.total = duration, !.count = 1, !.max = duration]) @@ M
    ELSE [M EXCEPT ![k].total = row.total + duration,
                   ![k].count = row.count + 1,
                   ![k].max = Max(row.max, duration)]

\* the UPDATE below without user_id in its WHERE clause
FoldEveryUser(M, k, duration) ==
    [x \in DOMAIN M |->
        IF x[2] = k[2]
        THEN [M[x] EXCEPT !.total = @ + duration, !.count = @ + 1, !.max = Max(@, duration)]
        ELSE M[x]]

\* UPDATE ... SET total_watch_minutes = total_watch_minutes + ?, ... WHERE user_id = ? AND date = ?
Fold2(M, k, duration) ==
    IF k \in DOMAIN M
    THEN [M EXCEPT ![k].total = @ + duration,
                   ![k].count = @ + 1,
                   ![k].max = Max(@, duration)]
    ELSE M

\* history: one more fold of `duration` on top of row r
Folded(r, duration) ==
    [total |-> r.total + duration, count |-> r.count + 1, max |-> Max(r.max, duration)]

EndSession1(S, e) ==
    [S EXCEPT ![e.sid].end_time = e.endt,
              ![e.sid].completed = 1,
              ![e.sid].satisfied = IF e.sat THEN 1 ELSE 0]

EndSession2(S, e) ==
    [S EXCEPT ![e.sid].end_time = e.endt,
              ![e.sid].duration = e.dur,
              ![e.sid].completed = 1,
              ![e.sid].satisfied = IF e.sat THEN 1 ELSE 0]

EndCommit(t) ==
    LET e == ending[t]
        k == <<e.uid, e.day>>
    IN
    /\ e.pc = "locked"
    /\ IF variant = 1 /\ ~e.has /\ k \in DOMAIN metrics
       THEN \* UNIQUE(user_id, date) fails: nothing is committed
            /\ ending' = [ending EXCEPT ![t] = Idle]
            /\ lock' = "leaked"
            /\ last' = Err("end", "error")
            /\ UNCHANGED <<sessions, metrics>>
       ELSE /\ sessions' = IF variant = 1 THEN EndSession1(sessions, e) ELSE EndSession2(sessions, e)
            /\ metrics' = IF variant = 1 THEN Fold1(metrics, k, e.has, e.row, e.dur)
                          ELSE Fold2(metrics, k, e.dur)
            /\ lock' = "free"
            /\ ending' = [r \in Threads |->
                            IF r = t THEN [e EXCEPT !.pc = "committed"]
                            ELSE IF ending[r].pc = "idle" THEN ending[r]
                            ELSE [ending[r] EXCEPT !.others = Folded(@, e.dur)]]
            /\ last' = NoRet
    /\ UNCHANGED <<Fixed, clock, reported, issued>>

\* a store of the score that leaves wellness_score as it was
StoreRiskOnly(M, k, score) ==
    [M EXCEPT ![k].risk = score]

StoreScore(M, k, score) ==
    [M EXCEPT ![k].risk = score, ![k].wellness = 100 * Unit - score]

\* first definition, lines 182-190
EndScore1(t) ==
    LET e == ending[t]
        k == <<e.uid, e.day>>
        score == get_addiction_risk_score_1(sessions, metrics, e.uid, e.day)
    IN
    /\ variant = 1
    /\ e.pc = "committed"
    /\ IF ~LockFree
       THEN \* the aggregates are committed, the score is not
            /\ last' = Err("end", "locked")
            /\ UNCHANGED metrics
       ELSE /\ metrics' = StoreScore(metrics, k, score)
            /\ last' = [Ret("end", "ok", e.sid, e.dur, score, FALSE) EXCEPT !.arg = e.uid]
    /\ ending' = [ending EXCEPT ![t] = Idle]
    /\ UNCHANGED <<Fixed, clock, sessions, lock, reported, issued>>

\* second definition, _update_addiction_score and the return of end_watch_session
EndScore2(t) ==
    LET e == ending[t]
        k == <<e.uid, e.day>>
    IN
    /\ variant = 2
    /\ e.pc = "committed"
    /\ metrics' = IF k \notin DOMAIN metrics \/ ~LockFree
                  THEN metrics
                  ELSE StoreScore(metrics, k,
                           RiskFormula2(metrics[k].total, metrics[k].count, Hour(clock)))
    /\ last' = [Ret("end", "ok", e.sid, e.dur,
                    get_addiction_risk_score_2(metrics', e.uid, Date(clock)), FALSE)
                   EXCEPT !.arg = e.uid]
    /\ ending' = [ending EXCEPT ![t] = Idle]
    /\ UNCHANGED <<Fixed, clock, sessions, lock, reported, issued>>

EndScore(t) == EndScore1(t) \/ EndScore2(t)

----------------------------------------------------------------------------
(* should_throttle_recommendations *)

should_throttle_recommendations(u) ==
    LET score == get_addiction_risk_score(sessions, metrics, u, Date(clock)) IN
    /\ Sequenced
    /\ last' = Ret("throttle", "ok", NoSession, ThrottlePercent(score), score, Throttled(score))
    /\ UNCHANGED <<Fixed, clock, sessions, metrics, lock, ending, reported, issued>>

----------------------------------------------------------------------------
(* ContextAwareEnsemble.get_recommendations: the number of items returned.  *)
(* The ensemble reads the keys should_throttle and throttle_percentage,     *)
(* which only the second definition returns.                                *)

\* int(n_recommendations * (1.0 - throttle_percentage)) in double precision:
\* 1.0 - 0.5 is 0.5, 1.0 - 0.8 is 0.19999999999999996
Limited(n, throttle_percentage) ==
    IF throttle_percentage = 50 THEN n \div 2
    ELSE IF throttle_percentage = 80 THEN (n - 1) \div 5
    ELSE n

\* the keys of the dict returned, and of each item of its list
\* "recommendations"
ResultKeys == {"recommendations", "context"}
ItemKeys == {"item_id", "title", "genres", "final_score", "scores", "mood_match", "reasoning"}

\* what np.random.uniform gives in one call, and the mood passed
Draws == IF scope = "rank" THEN 1 .. MaxDraws ELSE {1}
RankMoods == IF scope = "rank"
             THEN {<<"happy", "lower">>, <<"sad", "upper">>, <<"neutral", "lower">>}
             ELSE {<<"happy", "lower">>}

\* last.val is the length of the list returned; the list is the head of the
\* ranking of the candidates rated by last.draw.  _get_ml_candidates
\* subscripts self.mappings and catches KeyError only: with mappings = None the
\* TypeError leaves get_recommendations
get_recommendations(u, mood, n) ==
    LET score == get_addiction_risk_score_2(metrics, u, Date(clock))
        should_throttle == score > 60 * Unit
        throttle_percentage == 100 - ThrottlePercent2(score)
        n_recommendations == IF should_throttle
                             THEN Max(1, Limited(n, throttle_percentage))
                             ELSE n
    IN
    /\ Sequenced
    /\ variant = 2
    /\ \E draw \in Draws :
         last' = IF input.mappings = "None"
                 THEN [Ret("recommend", "raised", NoSession, 0, score, should_throttle)
                          EXCEPT !.arg = n]
                      @@ [keys |-> {}, item |-> {}, user |-> u, mood |-> mood,
                          hour |-> Hour(clock), draw |-> draw]
                 ELSE [Ret("recommend", "ok", NoSession,
                           Min(n_recommendations, NumCandidates), score, should_throttle)
                          EXCEPT !.arg = n]
                      @@ [keys |-> ResultKeys, item |-> ItemKeys, user |-> u, mood |-> mood,
                          hour |-> Hour(clock), draw |-> draw]
    /\ UNCHANGED <<Fixed, clock, sessions, metrics, lock, ending, reported, issued>>

----------------------------------------------------------------------------
(* get_daily_dashboard: addiction_risk_score and wellness_score of the      *)
(* result.                                                                  *)

\* round(x, 1) of a score in units; the scores of the second definition are
\* multiples of 1/3 point, never halfway between two tenths
RoundTenth(x) == ((x + 15) \div 30) * 30

\* the keys of the dictionary get_daily_dashboard returns
DashboardKeys1 ==
    {"today_watch_time", "daily_goal", "remaining_goal", "exceeded_goal", "session_count",
     "max_session_duration", "break_count", "addiction_risk_score", "addiction_level",
     "wellness_score", "week_trend", "status_message", "throttle", "recommendations"}
DashboardKeys2 ==
    {"user_id", "date", "today_watch_time", "daily_goal", "remaining_goal", "exceeded_goal",
     "addiction_risk_score", "wellness_score", "addiction_level", "status_message"}

\* first definition: the stored pair, or the computed score when the day has no row;
\* "throttle" is what should_throttle_recommendations returns
get_daily_dashboard_1(u) ==
    LET k == <<u, Date(clock)>>
        computed == get_addiction_risk_score_1(sessions, metrics, u, Date(clock))
        addiction_score == IF k \in DOMAIN metrics THEN metrics[k].risk ELSE computed
        wellness == IF k \in DOMAIN metrics THEN metrics[k].wellness
                    ELSE 100 * Unit - addiction_score
    IN
    /\ variant = 1
    /\ last' = Ret("dashboard", "ok", NoSession, wellness, addiction_score, FALSE)
                @@ [keys |-> DashboardKeys1,
                    throttle |-> [throttle_percent |-> ThrottlePercent1(computed),
                                  throttled |-> ThrottlePercent1(computed) < 100,
                                  score |-> computed]]

\* second definition: both rounded to one decimal from the stored score
get_daily_dashboard_2(u) ==
    LET score == get_addiction_risk_score_2(metrics, u, Date(clock)) IN
    /\ variant = 2
    /\ last' = Ret("dashboard", "ok", NoSession, RoundTenth(100 * Unit - score),
                   RoundTenth(score), FALSE)
                @@ [keys |-> DashboardKeys2]

get_daily_dashboard(u) ==
    /\ Sequenced
    /\ get_daily_dashboard_1(u) \/ get_daily_dashboard_2(u)
    /\ UNCHANGED <<Fixed, clock, sessions, metrics, lock, ending, reported, issued>>

----------------------------------------------------------------------------
KnownIds == DOMAIN sessions \cup {NoSession}

Sessions ==
    \/ Tick
    \/ Collect
    \/ \E u \in Owners, c \in Contents : start_watch_session(u, c)
    \/ \E sid \in KnownIds, m \in Elapsed : update_watch_progress(sid, m)
    \/ \E t \in Serving, sid \in KnownIds, u \in Users, sat \in Satisfied : EndSelect(t, sid, u, sat)
    \/ \E t \in Serving : EndLock(t)
    \/ \E t \in Serving : EndCommit(t)
    \/ \E t \in Serving : EndScore(t)

Next == Sessions

NextRisk ==
    \/ Sessions
    \/ \E u \in Users : should_throttle_recommendations(u)
    \/ \E u \in Users, m \in RankMoods, n \in Requested : get_recommendations(u, m, n)

NextDash ==
    \/ Sessions
    \/ \E u \in Users : get_daily_dashboard(u)

Spec == Init /\ [][Next]_vars
SpecConc == InitConc /\ [][Next]_vars
SpecRisk == InitRisk /\ [][NextRisk]_vars
SpecDash == InitDash /\ [][NextDash]_vars
SpecNeg == InitNeg /\ [][Next]_vars
SpecIso == InitIso /\ [][Next]_vars
SpecLate == InitLate /\ [][NextDash]_vars
SpecDawn == InitDawn /\ [][Next]_vars

----------------------------------------------------------------------------
(* Scope "score": the risk formula of either definition as a function of    *)
(* the aggregates.                                                          *)

Durations == {0, 59, 60, 179, 180, 299, 300}
Counts == 0 .. 6
More == {1, 30}

ScoreInputs ==
    [kind : {"score"}, total : 0 .. MaxTotal, count : Counts, max : Durations, late : BOOLEAN]

\* the score either definition computes from the aggregates; `late` is the
\* outcome of _unhealthy_hours_factor in the first definition and of the
\* test on datetime.now().hour in the second
ScoreOf(i) ==
    IF variant = 1
    THEN RiskFormula1(i.total, i.count, i.max, IF i.late THEN 50 ELSE 0)
    ELSE RiskFormula2(i.total, i.count, IF i.late THEN 23 ELSE 12)

InitScore == InitPure("score", ScoreInputs)

Score ==
    /\ scope = "score"
    /\ last' = Ret("score", "ok", NoSession, 0, ScoreOf(input), FALSE)
    /\ UNCHANGED <<Fixed, clock, sessions, metrics, lock, ending, reported, issued>>

\* the same aggregates with d more minutes watched
ScoreMore(d) ==
    /\ scope = "score"
    /\ input.total + d <= MaxTotal
    /\ input' = [input EXCEPT !.total = @ + d]
    /\ last' = Ret("score", "ok", NoSession, 0, ScoreOf(input'), FALSE)
    /\ UNCHANGED <<scope, variant, clock, sessions, metrics, lock, ending, reported, issued,
                   matrix, mood_affinity, user_mood_profile, mood_history>>

NextScore ==
    \/ Score
    \/ \E d \in More : ScoreMore(d)

SpecScore == InitScore /\ [][NextScore]_vars

----------------------------------------------------------------------------
(* Scope "affinity": one MoodContentAffinity instance constructed over a    *)
(* store that may already hold rows, then upsert_affinity and               *)
(* get_affinity_score calls.  A string is a word with its letter case.      *)

MaxUpserts == 2       \* upsert_affinity calls

Cases == {"lower", "upper"}

\* a string kept as it was passed
KeepCase(str) == str

\* str.lower()
lower(str) == <<str[1], "lower">>

\* a literal written in lower case in the source
Lit(word) == <<word, "lower">>

NEUTRAL == 50         \* the score of an unknown mood or genre

DefaultRows ==
    {<<"happy", "comedy", 95>>, <<"happy", "musical", 92>>, <<"happy", "adventure", 85>>,
     <<"happy", "animation", 88>>, <<"happy", "action", 72>>, <<"happy", "romantic", 80>>,
     <<"happy", "horror", 15>>,
     <<"sad", "drama", 95>>, <<"sad", "documentary", 85>>, <<"sad", "thriller", 75>>,
     <<"sad", "crime", 70>>, <<"sad", "horror", 65>>, <<"sad", "romance", 65>>,
     <<"sad", "animation", 30>>,
     <<"neutral", "action", 85>>, <<"neutral", "adventure", 75>>, <<"neutral", "sci-fi", 80>>,
     <<"neutral", "thriller", 75>>, <<"neutral", "drama", 65>>,
     <<"neutral", "documentary", 70>>, <<"neutral", "horror", 50>>}

\* the second definition lists romance where the first lists romantic
StaticRows ==
    (DefaultRows \ {<<"happy", "romantic", 80>>}) \cup {<<"happy", "romance", 80>>}

MatrixOf(rows) ==
    [k \in {<<Lit(r[1]), Lit(r[2])>> : r \in rows} |->
        (CHOOSE r \in rows : <<Lit(r[1]), Lit(r[2])>> = k)[3]]

DEFAULT_MATRIX == MatrixOf(DefaultRows)
affinity_matrix == MatrixOf(StaticRows)

NoRows == [k \in {} |-> 0]

\* what table mood_affinity may hold when the instance is constructed:
\* nothing, the defaults of an earlier instance, a single learned row, or
\* the defaults with one score replaced
Stores ==
    {NoRows,
     DEFAULT_MATRIX,
     [k \in {<<Lit("happy"), Lit("western")>>} |-> 10],
     [DEFAULT_MATRIX EXCEPT ![<<Lit("happy"), Lit("comedy")>>] = 10]}

MoodStrings == {"happy", "sad", "neutral", "angry"} \X Cases
GenreStrings ==
    ({r[2] : r \in DefaultRows \cup StaticRows} \cup {"western"}) \X Cases
UpsertMoods == {<<"happy", "upper">>}
UpsertGenres == {<<"comedy", "upper">>, <<"western", "lower">>}
UpsertScores == {10}

\* _sync_to_db: an empty table receives the matrix; otherwise the rows of
\* the table are read into the matrix and nothing is written
SyncedMatrix(store) ==
    IF DOMAIN store = {} THEN DEFAULT_MATRIX ELSE store @@ DEFAULT_MATRIX
SyncedTable(store) ==
    IF DOMAIN store = {} THEN DEFAULT_MATRIX ELSE store

\* __init__; `up` is false when the store cannot be reached, which the
\* first definition logs and the second ignores
InitAffinity ==
    /\ scope = "affinity"
    /\ variant \in {1, 2}
    /\ \E store \in Stores, up \in BOOLEAN :
        /\ matrix = IF variant = 2 THEN affinity_matrix
                    ELSE IF up THEN SyncedMatrix(store) ELSE DEFAULT_MATRIX
        /\ mood_affinity = IF variant = 1 /\ up THEN SyncedTable(store) ELSE store
        /\ input = [kind |-> "affinity",
                    fresh |-> (variant = 2 \/ ~up \/ DOMAIN store = {}),
                    calls |-> 0, mood |-> Lit("happy"), genre |-> Lit("comedy")]
    /\ clock = ClockStart
    /\ sessions = << >>
    /\ metrics = << >>
    /\ lock = "free"
    /\ ending = [t \in Threads |-> Idle]
    /\ reported = << >>
    /\ issued = {}
    /\ user_mood_profile = << >>
    /\ mood_history = << >>
    /\ last = NoRet

\* only the first definition has upsert_affinity; `ok` is false when the
\* INSERT OR REPLACE or its commit fails
upsert_affinity(mood, genre, score) ==
    LET k == <<lower(mood), lower(genre)>> IN
    /\ scope = "affinity"
    /\ variant = 1
    /\ input.calls < MaxUpserts
    /\ \E ok \in BOOLEAN :
        IF ok
        THEN /\ mood_affinity' = (k :> score) @@ mood_affinity
             /\ matrix' = (k :> score) @@ matrix
             /\ input' = [input EXCEPT !.calls = @ + 1, !.fresh = FALSE]
             /\ last' = Ret("upsert", "ok", NoSession, 0, score, TRUE)
        ELSE /\ UNCHANGED <<mood_affinity, matrix>>
             /\ input' = [input EXCEPT !.calls = @ + 1]
             /\ last' = Err("upsert", "failed")
    /\ UNCHANGED <<scope, variant, clock, sessions, metrics, lock, ending, reported, issued,
                   user_mood_profile, mood_history>>

get_affinity_score(mood, genre) ==
    LET k == <<lower(mood), lower(genre)>> IN
    /\ scope = "affinity"
    /\ input' = [input EXCEPT !.mood = mood, !.genre = genre]
    /\ last' = Ret("affinity", "ok", NoSession, 0,
                   IF k \in DOMAIN matrix THEN matrix[k] ELSE NEUTRAL, FALSE)
    /\ UNCHANGED <<scope, variant, clock, sessions, metrics, lock, ending, reported, issued,
                   matrix, mood_affinity, user_mood_profile, mood_history>>

NextAffinity ==
    \/ \E m \in UpsertMoods, g \in UpsertGenres, sc \in UpsertScores : upsert_affinity(m, g, sc)
    \/ \E m \in MoodStrings, g \in GenreStrings : get_affinity_score(m, g)

SpecAffinity == InitAffinity /\ [][NextAffinity]_vars

----------------------------------------------------------------------------
(* Scope "period": TimeOfDayAnalyzer.get_period_by_hour as a function of    *)
(* the hour passed.                                                         *)

MaxHour == 60         \* hours from -MaxHour to MaxHour are passed

\* self.periods, in the order of the dict: name, start hour, end hour
periods ==
    << <<"morning", 6, 11>>, <<"afternoon", 12, 16>>, <<"evening", 17, 21>>,
       <<"night", 22, 5>> >>

\* the test of one period: a range, or a range that wraps around midnight
InPeriod(p, hour) ==
    IF p[2] <= p[3] THEN p[2] <= hour /\ hour <= p[3]
    ELSE hour >= p[2] \/ hour <= p[3]

\* the first period of the dict whose test passes, "evening" when none does
get_period_by_hour(hour) ==
    LET hits == {i \in DOMAIN periods : InPeriod(periods[i], hour)} IN
    IF hits = {} THEN "evening"
    ELSE periods[CHOOSE i \in hits : \A j \in hits : i <= j][1]

HourInputs == [kind : {"hour"}, hour : -MaxHour .. MaxHour]

InitPeriod == InitPure("period", HourInputs)

\* the call; the period returned is kept in last.status
Period ==
    /\ scope = "period"
    /\ last' = Ret("period", get_period_by_hour(input.hour), NoSession, input.hour, 0, FALSE)
    /\ UNCHANGED <<Fixed, clock, sessions, metrics, lock, ending, reported, issued>>

NextPeriod == Period

SpecPeriod == InitPeriod /\ [][NextPeriod]_vars

----------------------------------------------------------------------------
(* Scope "mood": MoodDetector.detect_mood_from_input for two users, with    *)
(* moods in either letter case, one of them not an allowed mood.            *)

MaxMoods == 2         \* rows of mood_history

ALLOWED_MOODS == {Lit("happy"), Lit("sad"), Lit("neutral")}

MoodUsers == {1, 2}
MoodInputs == {"happy", "sad", "neutral", "angry"} \X Cases

InitMood == InitIn("mood")

\* the profile row of the user is inserted or updated and a history row is
\* appended, in one transaction; `up` is false when the store fails
StoreMood(user_id, mood, up, done) ==
    IF up
    THEN /\ Len(mood_history) < MaxMoods
         /\ user_mood_profile' = (user_id :> mood) @@ user_mood_profile
         /\ mood_history' = Append(mood_history, <<user_id, mood>>)
         /\ last' = [Ret("mood", done, NoSession, user_id, 0, FALSE) EXCEPT !.arg = mood]
    ELSE /\ UNCHANGED <<user_mood_profile, mood_history>>
         /\ last' = Err("mood", "failed")

\* first definition: a mood outside ALLOWED_MOODS raises ValueError
detect_mood_from_input_1(user_id, mood, up) ==
    /\ variant = 1
    /\ IF lower(mood) \notin ALLOWED_MOODS
       THEN /\ last' = Err("mood", "raised")
            /\ UNCHANGED <<user_mood_profile, mood_history>>
       ELSE StoreMood(user_id, lower(mood), up, "stored")

\* second definition: a mood outside valid_moods is replaced by neutral
detect_mood_from_input_2(user_id, mood, up) ==
    /\ variant = 2
    /\ StoreMood(user_id,
                 IF lower(mood) \notin ALLOWED_MOODS THEN Lit("neutral") ELSE lower(mood),
                 up, "success")

\* `input` keeps the arguments of the call
detect_mood_from_input(user_id, mood) ==
    /\ scope = "mood"
    /\ \E up \in BOOLEAN :
        \/ detect_mood_from_input_1(user_id, mood, up)
        \/ detect_mood_from_input_2(user_id, mood, up)
    /\ input' = [kind |-> "mood", user |-> user_id, mood |-> mood]
    /\ UNCHANGED <<scope, variant, clock, sessions, metrics, lock, ending, reported, issued,
                   matrix, mood_affinity>>

NextMood == \E u \in MoodUsers, m \in MoodInputs : detect_mood_from_input(u, m)

SpecMood == InitMood /\ [][NextMood]_vars

----------------------------------------------------------------------------
(* Scope "rank": the list ContextAwareEnsemble.get_recommendations returns. *)
(* The ensemble of the routes holds the MoodContentAffinity and the         *)
(* TimeOfDayAnalyzer bound on import.  Final scores are counted in 1/10000; *)
(* ratings, affinities and time scores in hundredths.  The sums are exact:  *)
(* two items of different genres whose scores are equal here can differ in  *)
(* the last bit of the double the code computes.                            *)

Candidates == 1 .. NumCandidates

\* np.random.uniform(3.5, 5.0) for candidate i in outcome d: every rating
\* 4.00 in the first outcome, spread over 3.50 .. 5.00 in the others
Rating(d, i) ==
    IF d = 1 THEN 400 ELSE 350 + ((i * (30 + 7 * d)) % 151)

\* _get_item_metadata: genres_pool[item_id % 6] and 90 + item_id % 60
genres_pool ==
    << <<"comedy", "romance">>, <<"action", "thriller">>, <<"drama">>,
       <<"sci-fi", "adventure">>, <<"horror">>, <<"documentary">> >>
ItemGenres(i) ==
    LET g == genres_pool[(i % 6) + 1] IN [j \in DOMAIN g |-> <<g[j], "capital">>]
ItemDuration(i) == 90 + (i % 60)

\* TimeOfDayAnalyzer.genre_affinity and the max_duration of period_info
genre_affinity(period) ==
    IF period = "morning"
    THEN [educational |-> 100, news |-> 95, documentary |-> 85, short_film |-> 80,
          action |-> 40, horror |-> 10]
    ELSE IF period = "afternoon"
    THEN ("sci-fi" :> 75) @@
         [action |-> 100, adventure |-> 95, comedy |-> 90, thriller |-> 80, horror |-> 30]
    ELSE IF period = "evening"
    THEN ("sci-fi" :> 90) @@
         [drama |-> 95, thriller |-> 90, action |-> 85, romance |-> 85, all |-> 80]
    ELSE [relaxing |-> 100, documentary |-> 90, slice_of_life |-> 85, short_film |-> 80,
          asmr |-> 95, action |-> 30, horror |-> 5]

max_duration(period) ==
    IF period = "morning" THEN 30
    ELSE IF period = "afternoon" THEN 90
    ELSE IF period = "evening" THEN 180
    ELSE 45

get_genre_score_for_time(genre, hour) ==
    LET scores == genre_affinity(get_period_by_hour(hour))
        g == lower(genre)[1]
    IN  IF g \in DOMAIN scores THEN scores[g] ELSE NEUTRAL

is_optimal_time_for_duration(duration_minutes, hour) ==
    duration_minutes <= max_duration(get_period_by_hour(hour))

\* second MoodContentAffinity.get_affinity_score, on the static matrix
StaticAffinity(mood, genre) ==
    LET k == <<lower(mood), lower(genre)>> IN
    IF k \in DOMAIN affinity_matrix THEN affinity_matrix[k] ELSE NEUTRAL

Range(f) == {f[x] : x \in DOMAIN f}

RECURSIVE SumOver(_, _)
SumOver(f, n) == IF n = 0 THEN 0 ELSE f[n] + SumOver(f, n - 1)

\* score_content times the weight 0.20: the mean over the genres of the item
MoodPart(mood, i) ==
    LET g == ItemGenres(i)
        scores == [j \in DOMAIN g |-> StaticAffinity(mood, g[j])]
    IN  (SumOver(scores, Len(g)) * 20) \div Len(g)

\* the time score of the first genre, halved when the item is too long for
\* the period, times the weight 0.10
TimePart(hour, i) ==
    LET time_score == get_genre_score_for_time(ItemGenres(i)[1], hour) IN
    IF is_optimal_time_for_duration(ItemDuration(i), hour)
    THEN time_score * 10 ELSE time_score * 5

\* cf_score * 0.40 + mood_score * 0.20 + time_score * 0.10 + 0.3
final_score(d, mood, hour, i) ==
    Rating(d, i) * 8 + MoodPart(mood, i) + TimePart(hour, i) + 3000

\* a sort that puts the later candidates of the same score in front
BehindLater(sc, i) ==
    {j \in Candidates : sc[j] > sc[i] \/ (sc[j] = sc[i] /\ j > i)}

\* list.sort(key = final_score, reverse = True) is stable: item i comes
\* behind the items that score more and behind the earlier candidates that
\* score the same
Behind(sc, i) ==
    {j \in Candidates : sc[j] > sc[i] \/ (sc[j] = sc[i] /\ j < i)}

\* the final scores of the candidates of the call whose return is r, as a table
ScoresOf(r) ==
    [i \in Candidates |-> final_score(r.draw, r.mood, r.hour, i)] @@ << >>

\* the item ids of ranked_items[:n_recommendations], from what `last` keeps of
\* the call
Recommendations(r) ==
    LET sc == ScoresOf(r)
        place == [i \in Candidates |-> Cardinality(Behind(sc, i)) + 1] @@ << >>
    IN  [p \in 1 .. r.val |-> CHOOSE i \in Candidates : place[i] = p]

InitRank == InitPure("rank", EnsembleInputs)

NextRank ==
    \/ Tick
    \/ \E u \in Users, m \in RankMoods, n \in Requested : get_recommendations(u, m, n)

SpecRank == InitRank /\ [][NextRank]_vars

----------------------------------------------------------------------------
(* Properties *)

\* thread t's end_watch_session call commits in this step
Commits(t) == ending[t].pc = "locked" /\ ending'[t].pc = "committed"

\* total_watch_minutes, session_count and max_session_duration of every row
Aggregates(M) == [k \in DOMAIN M |-> ReadRow(M[k])]

\* C1: a second end_watch_session on a session that is already ended leaves
\* total_watch_minutes, session_count and max_session_duration of every
\* addiction_metrics row as they were.
C1_SecondEndKeepsAggregates ==
    [][\A t \in Threads :
          (Commits(t) /\ sessions[ending[t].sid].completed = 1)
              => Aggregates(metrics') = Aggregates(metrics)]_vars

\* C2: an end_watch_session that commits for a session not yet ended adds 1
\* to the day's session_count, adds the value of the last
\* update_watch_progress call (0 if there was none) to total_watch_minutes
\* and sets max_session_duration to the larger of its prior value and that
\* value.
C2_EndFoldsLastReported ==
    [][\A t \in Threads :
          (Commits(t) /\ sessions[ending[t].sid].completed = 0)
              => LET k == <<ending[t].uid, Date(clock)>>
                 IN  RowOf(metrics', k) = Folded(RowOf(metrics, k), reported[ending[t].sid])]_vars

\* C3: no start_watch_session and no update_watch_progress call creates or
\* modifies a row of addiction_metrics.
C3_OnlyEndWritesMetrics ==
    [][last'.op \in {"start", "update"} => metrics' = metrics]_vars

\* C4: end_watch_session with an unknown session id or with a user other than
\* the session's owner does not get past the lookup, and a call that returns
\* not-found leaves watch_sessions and addiction_metrics unchanged.
C4_EndNotFoundChangesNothing ==
    [][/\ \A t \in Threads :
             (ending[t].pc = "idle" /\ ending'[t].pc = "selected")
                 => /\ ending'[t].sid \in DOMAIN sessions
                    /\ sessions[ending'[t].sid].user = ending'[t].uid
       /\ (last'.op = "end" /\ last'.status = "not_found")
             => (sessions' = sessions /\ metrics' = metrics)]_vars

\* C5: when an end_watch_session call commits that overlaps calls for other
\* sessions of the same user, the day's row holds every fold: session_count is the count at the start of
\* the call plus the folds committed by other calls meanwhile plus 1,
\* total_watch_minutes has grown by the sum of those durations, and
\* max_session_duration is at least each of them.
C5_ConcurrentEndsLoseNothing ==
    [][\A t \in Threads :
          (Commits(t) /\ ending[t].peers # {} /\ ending[t].sid \notin ending[t].peers)
              => LET e == ending[t]
                     k == <<e.uid, Date(clock)>>
                 IN  /\ k \in DOMAIN metrics'
                     /\ metrics'[k].count = e.seen.count + e.others.count + 1
                     /\ metrics'[k].total = e.seen.total + e.others.total + e.dur
                     /\ metrics'[k].max >= e.dur
                     /\ metrics'[k].max >= e.others.max]_vars

\* duration_minutes, end_time, completed and user_satisfied of a row
Stored(r) == <<r.duration, r.end_time, r.completed, r.satisfied>>

\* C6: once a session is ended, no step changes its stored duration_minutes,
\* end_time, completed or user_satisfied.
C6_EndedIsTerminal ==
    [][\A sid \in DOMAIN sessions :
          sessions[sid].completed = 1 => Stored(sessions'[sid]) = Stored(sessions[sid])]_vars

\* watch_sessions without the sessions that were started and not ended
EndedOnly(S) == [id \in {i \in DOMAIN S : S[i].completed = 1} |-> S[id]]

\* C7: the risk score and the throttle decision of every user are what they
\* would be had the sessions that are started and not ended never been
\* started.
C7_ActiveSessionHasNoEffect ==
    \A u \in Users :
        LET with == get_addiction_risk_score(sessions, metrics, u, Date(clock))
            without == get_addiction_risk_score(EndedOnly(sessions), metrics, u, Date(clock))
        IN  /\ with = without
            /\ ThrottlePercent(with) = ThrottlePercent(without)

StepPercent(score) ==
    IF score < 60 * Unit THEN 100
    ELSE IF score <= 75 * Unit THEN 50
    ELSE 20

\* C9: should_throttle_recommendations answers percent 100 and not throttled
\* for a risk score below 60, percent 50 for a score from 60 to 75
\* inclusive, and percent 20 above 75.
C9_ThrottleIsStepFunction ==
    last.op = "throttle" =>
        /\ last.val = StepPercent(last.score)
        /\ last.flag = (last.score >= 60 * Unit)

\* C11: the risk score either definition computes lies in [0, 100], and
\* with session_count, max_session_duration and the late flag held fixed it
\* does not decrease when total_watch_minutes grows.
C11_ScoreInRangeAndMonotone ==
    [][/\ last'.op = "score" => (0 <= last'.score /\ last'.score <= 100 * Unit)
       /\ (last.op = "score" /\ last'.op = "score" /\ input'.total >= input.total)
             => last'.score >= last.score]_vars

\* C11, its case: more minutes raise the score between two evaluations.
C11_ScoreRises ==
    /\ last.op = "score"
    /\ input.total > CRITICAL_THRESHOLD
    /\ last.score > ScoreOf([input EXCEPT !.total = 0])

\* C13: update_watch_progress on an existing session answers should_break
\* exactly when the reported minutes are 30, 60, 90, ...: a positive multiple of
\* the break interval, whatever was reported before.
C13_BreakIffPositiveMultiple ==
    (last.op = "update" /\ last.status = "ok" /\ last.sid \in DOMAIN sessions)
        => (last.flag <=> \E n \in 1 .. last.val : last.val = 30 * n)

\* C13, its case: a progress report of 60 minutes on an existing session
\* answers should_break.
C13_BreakAtSixty ==
    /\ last.op = "update" /\ last.status = "ok" /\ last.sid \in DOMAIN sessions
    /\ last.val = 60 /\ last.flag

\* C14: update_watch_progress with a session id that start_watch_session never
\* returned does not answer with a should_break result.
C14_UnknownUpdateIsNotFound ==
    (last.op = "update" /\ last.status = "ok") => last.sid \in issued

\* C15: no start, update or end call lets a storage failure escape as an
\* exception.
C15_NothingRaised ==
    last.op \in {"start", "update", "end"} => last.status # "raised"

\* C16: whenever no call is in progress the in-memory matrix and table
\* mood_affinity hold the same (mood, genre) keys with the same scores.
C16_MatrixEqualsTable ==
    scope = "affinity" => matrix = mood_affinity

\* the score listed for the words of (mood, genre) in the matrix the
\* definition in use is constructed with, or 0.5
SeededScore(mood, genre) ==
    LET rows == IF variant = 1 THEN DefaultRows ELSE StaticRows
        hits == {r \in rows : r[1] = mood[1] /\ r[2] = genre[1]}
    IN IF hits = {} THEN 50 ELSE (CHOOSE r \in hits : TRUE)[3]

\* C17: on a freshly seeded matrix get_affinity_score returns the seeded
\* score of every seeded pair, in any letter case, and 0.5 for any other pair.
C17_SeededOrNeutral ==
    (last.op = "affinity" /\ input.fresh) => last.score = SeededScore(input.mood, input.genre)

\* C17, its case: HAPPY and COMEDY on a freshly seeded matrix give 0.95.
C17_UpperCaseHit ==
    /\ last.op = "affinity" /\ input.fresh
    /\ input.mood = <<"happy", "upper">> /\ input.genre = <<"comedy", "upper">>
    /\ last.score = 95

\* the period of an hour of the day
PeriodOfDay(h) ==
    IF h \in 6 .. 11 THEN "morning"
    ELSE IF h \in 12 .. 16 THEN "afternoon"
    ELSE IF h \in 17 .. 21 THEN "evening"
    ELSE "night"

\* C18: for every integer hour, inside 0..23 or not, get_period_by_hour
\* returns the period of the hour modulo 24.
C18_PeriodOfHourModulo24 ==
    last.op = "period" => last.status = PeriodOfDay(input.hour % 24)

\* C19: for every count requested and every throttle, get_recommendations
\* returns at least 1 and at most that many items, each with an item id and a
\* final score.
C19_BetweenOneAndRequested ==
    last.op = "recommend" =>
        /\ 1 <= last.val /\ last.val <= last.arg
        /\ {"item_id", "final_score"} \subseteq last.item

\* C20: the result of get_recommendations reports the caller's user id, the
\* count requested and the count returned.
C20_ResultReportsCounts ==
    last.op = "recommend" => {"user_id", "requested", "returned"} \subseteq last.keys

\* C21: detect_mood_from_input with a mood other than happy, sad or neutral is
\* rejected with a validation error and changes neither user_mood_profile nor
\* mood_history.
C21_InvalidMoodRejected ==
    [][(input'.kind = "mood" /\ input'.mood[1] \notin {"happy", "sad", "neutral"})
          => (last'.status = "raised" /\ UNCHANGED <<user_mood_profile, mood_history>>)]_vars

\* C22: no update_watch_progress call lowers the duration_minutes stored for
\* a session, whatever value it reports.
C22_UpdateNeverLowersDuration ==
    [][(last'.op = "update" /\ last' # last)
          => \A sid \in DOMAIN sessions : sessions'[sid].duration >= sessions[sid].duration]_vars

\* C23: whatever integer is passed to update_watch_progress, negative ones
\* included, every watch_sessions row has duration_minutes >= 0 and every
\* addiction_metrics row has total_watch_minutes, session_count and
\* max_session_duration >= 0.
C23_DurationsAndAggregatesNonNegative ==
    /\ \A sid \in DOMAIN sessions : sessions[sid].duration >= 0
    /\ \A k \in DOMAIN metrics :
        metrics[k].total >= 0 /\ metrics[k].count >= 0 /\ metrics[k].max >= 0

\* 0.4 f1 + 0.3 f2 + 0.2 f3 + 0.1 f4 in units, clamped to 0..100 points, with
\* f1 = min(100, total/120*100), f2 = min(100, count/5*100), f3 the step
\* function of the longest session and f4 = 50 when a session started late
WeightedRisk(i) ==
    LET f1 == Min(40 * Unit, i.total * 100)
        f2 == Min(30 * Unit, i.count * 6 * Unit)
        f3 == IF i.max < 60 THEN 0
              ELSE IF i.max < 180 THEN 10 * Unit
              ELSE IF i.max < 300 THEN 16 * Unit
              ELSE 20 * Unit
        f4 == IF i.late THEN 5 * Unit ELSE 0
    IN  Max(0, Min(100 * Unit, f1 + f2 + f3 + f4))

\* aggregates that some sequence of sessions of one day gives
FromSessions(i) ==
    i.count >= 1 /\ i.max <= i.total /\ i.total <= i.count * i.max

\* C24: the risk score is the weighted sum of the four factors, clamped to
\* 0..100 (to within the rounding to two decimals, half of 0.01 point).
C24_ScoreIsWeightedSum ==
    (last.op = "score" /\ FromSessions(input)) =>
        /\ 2 * (last.score - WeightedRisk(input)) <= 3
        /\ 2 * (WeightedRisk(input) - last.score) <= 3

\* C25: the list get_recommendations returns is in non-increasing order of
\* final_score, and two items with the same final_score are in the order of
\* the candidate list (ascending item id).
C25_SortedAndStable ==
    (last.op = "recommend" /\ last.status = "ok") =>
        LET list == Recommendations(last)
            sc == ScoresOf(last)
        IN  \A a, b \in DOMAIN list :
                a < b => /\ sc[list[a]] >= sc[list[b]]
                         /\ sc[list[a]] = sc[list[b]] => list[a] < list[b]

\* C25, its case: a list returned with two items of the same final_score and
\* two of different final_score.
C25_ListWithTie ==
    /\ last.op = "recommend" /\ last.status = "ok"
    /\ LET list == Recommendations(last)
           sc == ScoresOf(last)
       IN  /\ \E a, b \in DOMAIN list : a < b /\ sc[list[a]] = sc[list[b]]
           /\ \E a, b \in DOMAIN list : sc[list[a]] > sc[list[b]]

\* 0.4 cf + 0.3 cb + 0.2 moodAffinity + 0.1 timeScore in 1/10000, with cf the
\* rating over 5, cb = 0.5 for want of a content sub-score and timeScore the
\* mean time score of the genres of the item
WeightedScore(r, i) ==
    LET g == ItemGenres(i)
        times == [j \in DOMAIN g |-> get_genre_score_for_time(g[j], r.hour)]
    IN  Rating(r.draw, i) * 8 + 1500 + MoodPart(r.mood, i)
        + (SumOver(times, Len(g)) * 10) \div Len(g)

\* C26: the final_score of every item returned is 0.4 cf + 0.3 cb + 0.2
\* moodAffinity + 0.1 timeScore.
C26_FinalScoreIsWeightedSum ==
    (last.op = "recommend" /\ last.status = "ok") =>
        \A i \in Range(Recommendations(last)) : ScoresOf(last)[i] = WeightedScore(last, i)

\* C27: two get_recommendations calls in a row with the same user, mood and
\* count, at the same hour and in the same store state, return the same list
\* of item ids.
C27_SameCallSameList ==
    [][(/\ last.op = "recommend" /\ last.status = "ok"
        /\ last'.op = "recommend" /\ last'.status = "ok"
        /\ last'.user = last.user /\ last'.mood = last.mood /\ last'.arg = last.arg
        /\ last'.hour = last.hour /\ metrics' = metrics /\ sessions' = sessions)
          => Recommendations(last') = Recommendations(last)]_vars

\* the addiction_metrics rows of user b, b's risk score of the day and the
\* throttle decision taken on it
UserView(b) ==
    LET score == get_addiction_risk_score(sessions, metrics, b, Date(clock))
    IN  <<[k \in {x \in DOMAIN metrics : x[1] = b} |-> metrics[k]], score,
          ThrottlePercent(score)>>

\* C28: a step of a start_watch_session, update_watch_progress or
\* end_watch_session call for one user leaves the addiction_metrics rows, the
\* risk score and the throttle decision of every other user as they were,
\* also when the end_watch_session call names a session of the other user.
C28_OtherUsersUntouched ==
    [][LET enders == {t \in Threads : ending'[t] # ending[t]}
           caller == IF enders # {}
                     THEN LET t == CHOOSE x \in enders : TRUE
                          IN  IF ending'[t].pc # "idle" THEN ending'[t].uid ELSE ending[t].uid
                     ELSE IF last'.op \in {"start", "update"} THEN last'.sid[1]
                     ELSE 0
       IN  clock' = clock =>
             \A b \in Owners : b # caller => UserView(b)' = UserView(b)]_vars

\* C28, its case: end_watch_session has returned for a caller other than the
\* owner of the session it names, while the owner has a row of the day with a
\* session folded into it.
C28_EndedWithOtherUsersSession ==
    /\ last.op = "end" /\ last.status = "ok"
    /\ last.arg # last.sid[1]
    /\ <<last.sid[1], Date(clock)>> \in DOMAIN metrics
    /\ metrics[<<last.sid[1], Date(clock)>>].count >= 1

\* C29: in every dashboard that embeds a throttle decision, the risk score
\* reported equals the score of the throttle decision, so the two are on the
\* same side of 60 and of 75.
C29_DashboardScoreIsThrottleScore ==
    (last.op = "dashboard" /\ "throttle" \in last.keys) =>
        /\ last.score = last.throttle.score
        /\ (last.score < 60 * Unit) = (last.throttle.score < 60 * Unit)
        /\ (last.score <= 75 * Unit) = (last.throttle.score <= 75 * Unit)

\* C30: while the calendar day stays the same, no step lowers a user's risk
\* score, and so none raises the percent of recommendations shown.
C30_RiskNeverDecreasesInADay ==
    [][Date(clock') = Date(clock) =>
         \A u \in Owners :
            LET before == get_addiction_risk_score(sessions, metrics, u, Date(clock))
                after == get_addiction_risk_score(sessions', metrics', u, Date(clock'))
            IN  /\ after >= before
                /\ ThrottlePercent(after) <= ThrottlePercent(before)]_vars

EffectiveCount(n, percent) ==
    IF percent = 100 THEN n ELSE Max(1, (2 * n * percent + 100) \div (2 * 100))

\* C10: get_recommendations returns min(effectiveCount, number of
\* candidates) items, with effectiveCount the requested count at percent 100
\* and max(1, round(requested * percent / 100)) below; 5 at percent 50 gives 3.
C10_ReturnedCount ==
    (last.op = "recommend" /\ last.status = "ok") =>
        last.val = Min(EffectiveCount(last.arg, ThrottlePercent(last.score)), NumCandidates)
====
